---- MODULE Spec2Model ----
(***************************************************************************)
(* Model of scripts/analyze_gl.py: the digit extractor (first_digit), the  *)
(* distribution builder (benford_distribution), the fit statistics         *)
(* (benford_stats), the column profile of write_outputs and the Benford    *)
(* report of write_benford_outputs.                                        *)
(*                                                                         *)
(* Python floats are IEEE-754 binary64.  A finite non-zero magnitude is a  *)
(* record [m, e]: m is the 53-bit significand as a sequence of bits, most  *)
(* significant first, m[1] = 1, and the magnitude is int(m) * 2^e.  Every  *)
(* float operation the code performs (value *= 10, value /= 10, the        *)
(* comparisons, int()) is computed exactly and then rounded to nearest,    *)
(* ties to even, as the hardware does.  Magnitudes stay far from the       *)
(* overflow and subnormal ranges within the bounds below.                  *)
(***************************************************************************)
EXTENDS Integers, Sequences, FiniteSets, TLC

VARIABLES fdIn, fdVal, fdPc, fdRet, df, profile, benford

vars == <<fdIn, fdVal, fdPc, fdRet, df, profile, benford>>
fdVars == <<fdIn, fdVal, fdPc, fdRet>>
dfVars == <<df, profile, benford>>

(***************************************************************************)
(* Bounds of the model.                                                    *)
(***************************************************************************)
MaxDec == 13
MaxStrLen == 2
MaxRows == 2
MaxCols == 4

(***************************************************************************)
(* Arbitrary-precision naturals as bit sequences (most significant first,  *)
(* no leading zero; <<>> is 0).                                            *)
(***************************************************************************)
Precision == 53

RECURSIVE ToBits(_)
ToBits(n) == IF n = 0 THEN <<>> ELSE Append(ToBits(n \div 2), n % 2)

RECURSIVE BitsVal(_, _)
BitsVal(b, i) == IF i = 0 THEN 0 ELSE 2 * BitsVal(b, i - 1) + b[i]

\* b without its leading zeros
Strip(b) ==
    IF \A i \in 1..Len(b) : b[i] = 0 THEN <<>>
    ELSE LET first == CHOOSE i \in 1..Len(b) : b[i] = 1 /\ \A j \in 1..(i - 1) : b[j] = 0
         IN  SubSeq(b, first, Len(b))

Zeros(k) == [i \in 1..k |-> 0]

\* bits lo..hi of b times 10 plus carry: the low bits and the carry out
\* (halving keeps the evaluation shallow; the carry runs right to left and
\* is at most 9)
RECURSIVE MulRange(_, _, _, _)
MulRange(b, lo, hi, carry) ==
    IF lo = hi
    THEN LET t == b[lo] * 10 + carry IN [q |-> <<t % 2>>, c |-> t \div 2]
    ELSE LET mid == (lo + hi) \div 2
             R == MulRange(b, mid + 1, hi, carry)
         IN  CASE R.c \in 0..9 ->
                 LET L == MulRange(b, lo, mid, R.c)
                 IN  [q |-> L.q \o R.q, c |-> L.c]

\* b * 10, exactly
MulTen(b) ==
    IF b = <<>> THEN <<>>
    ELSE LET r == MulRange(b, 1, Len(b), 0) IN ToBits(r.c) \o r.q

\* long division by 10 of bits lo..hi of b with remainder rem carried in
RECURSIVE DivRange(_, _, _, _)
DivRange(b, lo, hi, rem) ==
    IF lo = hi
    THEN LET r == 2 * rem + b[lo]
         IN  IF r >= 10 THEN [q |-> <<1>>, r |-> r - 10] ELSE [q |-> <<0>>, r |-> r]
    ELSE LET mid == (lo + hi) \div 2
             L == DivRange(b, lo, mid, rem)
         IN  CASE L.r \in 0..9 ->
                 LET R == DivRange(b, mid + 1, hi, L.r)
                 IN  [q |-> L.q \o R.q, r |-> R.r]

\* floor(b / 10) and b mod 10
DivTen(b) ==
    IF b = <<>> THEN [q |-> <<>>, r |-> 0]
    ELSE LET d == DivRange(b, 1, Len(b), 0) IN [q |-> Strip(d.q), r |-> d.r]

\* b + 1 (the carry may lengthen the result)
Incr(b) ==
    IF \A i \in 1..Len(b) : b[i] = 1 THEN <<1>> \o Zeros(Len(b))
    ELSE LET last == CHOOSE i \in 1..Len(b) : b[i] = 0 /\ \A j \in (i + 1)..Len(b) : b[j] = 1
         IN  [j \in 1..Len(b) |-> IF j < last THEN b[j] ELSE IF j = last THEN 1 ELSE 0]

(***************************************************************************)
(* Rounding of the exact value int(b) * 2^e (plus a non-zero fraction      *)
(* below the last bit when sticky) to binary64, nearest, ties to even.     *)
(***************************************************************************)
Round(b, sticky, e) ==
    LET L == Len(b)
    IN  IF L <= Precision
        THEN [m |-> b \o Zeros(Precision - L), e |-> e - (Precision - L)]
        ELSE LET top   == SubSeq(b, 1, Precision)
                 guard == b[Precision + 1]
                 rest  == sticky \/ (\E i \in (Precision + 2)..L : b[i] = 1)
                 up    == guard = 1 /\ (rest \/ top[Precision] = 1)
                 inc   == Incr(top)
             IN  IF ~up THEN [m |-> top, e |-> e + (L - Precision)]
                 ELSE IF Len(inc) > Precision
                      THEN [m |-> SubSeq(inc, 1, Precision), e |-> e + (L - Precision) + 1]
                      ELSE [m |-> inc, e |-> e + (L - Precision)]

(***************************************************************************)
(* Values a cell or an argument can hold.  A finite non-zero float is      *)
(* named by the decimal literal n * 10^j it is read from; Magnitude gives  *)
(* its binary64 magnitude.  Magnitudes are records [cls, m, e].            *)
(***************************************************************************)
NoneVal == [k |-> "none"]
NaN == [k |-> "nan"]
Zero == [k |-> "zero"]
Inf(neg) == [k |-> "inf", neg |-> neg]
Dec(neg, n, j) == [k |-> "dec", neg |-> neg, n |-> n, j |-> j]
Str(s) == [k |-> "str", s |-> s]

MagZero == [cls |-> "zero", m |-> <<>>, e |-> 0]
MagInf == [cls |-> "inf", m |-> <<>>, e |-> 0]
MagNaN == [cls |-> "nan", m |-> <<>>, e |-> 0]
MagFin(f) == [cls |-> "fin", m |-> f.m, e |-> f.e]

\* b * 10^j exactly
RECURSIVE Scaled(_, _)
Scaled(b, j) == IF j = 0 THEN b ELSE Scaled(MulTen(b), j - 1)

\* floor(b / 10^j), and whether a remainder was dropped
RECURSIVE Shrunk(_, _, _)
Shrunk(b, j, sticky) ==
    IF j = 0 THEN [q |-> b, sticky |-> sticky]
    ELSE LET d == DivTen(b)
         IN  IF d.r = 0 THEN Shrunk(d.q, j - 1, sticky) ELSE Shrunk(d.q, j - 1, TRUE)

\* the binary64 nearest to n * 10^j
DecToFloat(n, j) ==
    IF j >= 0 THEN Round(Scaled(ToBits(n), j), FALSE, 0)
    ELSE LET s == Precision + 3 + 4 * (0 - j)
             d == Shrunk(ToBits(n) \o Zeros(s), 0 - j, FALSE)
         IN  Round(d.q, d.sticky, 0 - s)

\* text: strings over Chars; float(s) accepts a non-empty string of digits
Chars == {"7", "x"}
DigitChars == {"7"}
CharDigit(c) == IF c = "7" THEN 7 ELSE 0

Parses(s) == s # <<>> /\ \A i \in 1..Len(s) : s[i] \in DigitChars

RECURSIVE StrInt(_, _)
StrInt(s, i) == IF i = 0 THEN 0 ELSE 10 * StrInt(s, i - 1) + CharDigit(s[i])

\* abs(float(value)) of line 64, for a value float() accepts
Magnitude(v) ==
    CASE v.k = "zero" -> MagZero
      [] v.k = "inf"  -> MagInf
      [] v.k = "nan"  -> MagNaN
      [] v.k = "dec"  -> MagFin(DecToFloat(v.n, v.j))
      [] v.k = "str"  -> MagFin(DecToFloat(StrInt(v.s, Len(v.s)), 0))

\* float(value) raises ValueError (TypeError for None)
FloatRaises(v) == v.k = "none" \/ (v.k = "str" /\ ~Parses(v.s))

\* pd.isna(value)
IsNa(v) == v.k \in {"none", "nan"}

(***************************************************************************)
(* The float operations of first_digit.                                    *)
(***************************************************************************)
\* value < 1
Lt1(v) == v.cls = "fin" /\ v.e <= 0 - Precision

\* value >= 10
Ge10(v) ==
    \/ v.cls = "inf"
    \/ /\ v.cls = "fin"
       /\ \/ v.e >= 5 - Precision
          \/ v.e = 4 - Precision /\ BitsVal(v.m, 4) >= 10

\* value *= 10
Mul10(v) ==
    IF v.cls = "fin" THEN MagFin(Round(MulTen(v.m), FALSE, v.e)) ELSE v

\* value /= 10
Div10(v) ==
    IF v.cls = "fin"
    THEN LET d == DivTen(v.m \o Zeros(6))
         IN  MagFin(Round(d.q, d.r # 0, v.e - 6))
    ELSE v

\* int(value) for 1 <= value < 10
IntOf(v) == BitsVal(v.m, Precision + v.e)

(***************************************************************************)
(* first_digit as a function: <<d>> for a digit d, <<>> for None,          *)
(* "raise" when float() raises, "hang" when a loop cannot end because an   *)
(* iteration leaves value and the loop condition unchanged.                *)
(***************************************************************************)
None == <<>>
Returned(r) == [st |-> "return", v |-> r]
Raised == [st |-> "raise", v |-> None]
Hangs == [st |-> "hang", v |-> None]

RECURSIVE ScaleUp(_)
ScaleUp(v) == IF Lt1(v) THEN ScaleUp(Mul10(v)) ELSE v

RECURSIVE ScaleDown(_)
ScaleDown(v) ==
    IF ~Ge10(v) THEN v
    ELSE IF Div10(v) = v THEN [cls |-> "loop", m |-> <<>>, e |-> 0]
    ELSE ScaleDown(Div10(v))

first_digit(value) ==
    IF IsNa(value) THEN Returned(None)
    ELSE IF FloatRaises(value) THEN Raised
    ELSE LET v == Magnitude(value)
         IN  IF v.cls = "zero" THEN Returned(None)
             ELSE LET w == ScaleDown(ScaleUp(v))
                  IN  IF w.cls = "loop" THEN Hangs
                      ELSE IF w.cls = "nan" THEN Raised
                      ELSE Returned(<<IntOf(w)>>)

(***************************************************************************)
(* first_digit step by step: one action per line of lines 62-71.           *)
(***************************************************************************)
Digits == 1..9

RECURSIVE Strings(_)
Strings(n) ==
    IF n = 0 THEN {<<>>}
    ELSE LET S == Strings(n - 1)
         IN  S \cup {Append(s, c) : s \in {t \in S : Len(t) = n - 1}, c \in Chars}

FdInputs ==
    {NoneVal, NaN, Zero, Inf(FALSE), Inf(TRUE)}
    \cup {Str(s) : s \in Strings(MaxStrLen) \ {<<>>}}
    \cup {Dec(neg, n, j) : neg \in BOOLEAN, n \in Digits, j \in (0 - MaxDec)..MaxDec}

(***************************************************************************)
(* Datasets.  A column has a name (its position in the sheet), a dtype and *)
(* one cell per row.  Columns are drawn from a small pool of shapes: all   *)
(* cells valid, one valid cell then zeros, a null then valid cells, a      *)
(* null then zeros, an infinity, and a text column with a null.            *)
(***************************************************************************)
Palette == <<Dec(FALSE, 25, 1), Dec(TRUE, 999, 0), Dec(FALSE, 1, 2), Dec(FALSE, 5, -1)>>
PaletteAt(i) == Palette[(i % Len(Palette)) + 1]

Shapes == {"full", "head", "tail", "void", "inf", "text"}

ShapeCell(shape, i) ==
    CASE shape = "full" -> PaletteAt(i)
      [] shape = "head" -> IF i = 1 THEN Palette[1] ELSE Zero
      [] shape = "tail" -> IF i = 1 THEN NaN ELSE PaletteAt(i)
      [] shape = "void" -> IF i = 1 THEN NaN ELSE Zero
      [] shape = "inf"  -> IF i = 1 THEN Inf(FALSE) ELSE Palette[1]
      [] shape = "text" -> IF i = 1 THEN NoneVal ELSE Str(<<"x">>)

ShapeColumn(name, shape, rows) ==
    [name |-> name,
     dtype |-> IF shape = "text" THEN "object" ELSE "float64",
     cells |-> [i \in 1..rows |-> ShapeCell(shape, i)]]

\* the dataset with the given number of rows and one column per shape
Dataset(rows, shapes) ==
    [rows |-> rows, cols |-> [c \in 1..Len(shapes) |-> ShapeColumn(c, shapes[c], rows)]]

CellValues ==
    {NoneVal, NaN, Zero, Inf(FALSE), Str(<<"x">>)} \cup {Palette[i] : i \in 1..Len(Palette)}

NoDF == [rows |-> 0, cols |-> <<>>]
NoProfile == [status |-> "none", rows |-> <<>>]
NoBenford == [status |-> "none"]

InitFD ==
    /\ fdIn \in FdInputs
    /\ fdVal = MagNaN
    /\ fdPc = "isna"
    /\ fdRet = None
    /\ df = NoDF
    /\ profile = NoProfile
    /\ benford = NoBenford

\* lines 62-63
FdIsNa ==
    /\ fdPc = "isna"
    /\ IF IsNa(fdIn)
       THEN fdPc' = "returned" /\ fdRet' = None
       ELSE fdPc' = "float" /\ fdRet' = fdRet
    /\ UNCHANGED <<fdIn, fdVal>>
    /\ UNCHANGED dfVars

\* line 64
FdFloat ==
    /\ fdPc = "float"
    /\ IF FloatRaises(fdIn)
       THEN fdPc' = "raised" /\ fdVal' = fdVal
       ELSE fdPc' = "zero" /\ fdVal' = Magnitude(fdIn)
    /\ UNCHANGED <<fdIn, fdRet>>
    /\ UNCHANGED dfVars

\* lines 65-66
FdZero ==
    /\ fdPc = "zero"
    /\ IF fdVal.cls = "zero"
       THEN fdPc' = "returned" /\ fdRet' = None
       ELSE fdPc' = "up" /\ fdRet' = fdRet
    /\ UNCHANGED <<fdIn, fdVal>>
    /\ UNCHANGED dfVars

\* lines 67-68: one evaluation of the loop condition
FdScaleUp ==
    /\ fdPc = "up"
    /\ IF Lt1(fdVal)
       THEN fdVal' = Mul10(fdVal) /\ fdPc' = "up"
       ELSE fdVal' = fdVal /\ fdPc' = "down"
    /\ UNCHANGED <<fdIn, fdRet>>
    /\ UNCHANGED dfVars

\* lines 69-70: one evaluation of the loop condition
FdScaleDown ==
    /\ fdPc = "down"
    /\ IF Ge10(fdVal)
       THEN fdVal' = Div10(fdVal) /\ fdPc' = "down"
       ELSE fdVal' = fdVal /\ fdPc' = "int"
    /\ UNCHANGED <<fdIn, fdRet>>
    /\ UNCHANGED dfVars

\* line 71
FdInt ==
    /\ fdPc = "int"
    /\ IF fdVal.cls = "nan"
       THEN fdPc' = "raised" /\ fdRet' = fdRet
       ELSE fdPc' = "returned" /\ fdRet' = <<IntOf(fdVal)>>
    /\ UNCHANGED <<fdIn, fdVal>>
    /\ UNCHANGED dfVars

NextFD == FdIsNa \/ FdFloat \/ FdZero \/ FdScaleUp \/ FdScaleDown \/ FdInt

SpecFD == InitFD /\ [][NextFD]_vars

(***************************************************************************)
(* The distribution builder and the fit statistics.  Proportions and the   *)
(* statistics are reals; they are kept in units of 1/Scale, truncated.     *)
(* A float result is <<x>>, and nan (not a number) is <<>>.                *)
(***************************************************************************)
Scale == 10^4
nan == <<>>

RECURSIVE SumTo(_, _)
SumTo(f, i) == IF i = 0 THEN 0 ELSE SumTo(f, i - 1) + f[i]

Abs(x) == IF x < 0 THEN 0 - x ELSE x

\* series.apply(first_digit) over the cell values of the datasets
digit_of == [v \in CellValues |-> first_digit(v)]

\* series.dropna()
dropna(series) == SelectSeq(series, LAMBDA v : ~IsNa(v))

\* line 79: series.dropna().apply(first_digit)
apply_first_digit(vals) == [i \in 1..Len(vals) |-> digit_of[vals[i]]]

\* the first call of the apply that raises or hangs ends it
failed(res) == {i \in 1..Len(res) : res[i].st # "return"}
first_failure(res) == res[CHOOSE i \in failed(res) : \A j \in failed(res) : i <= j].st

\* lines 80-81 with fill_value=1: a digit that never occurs is given count 1
value_counts_reindex_fill_one(res) ==
    IF failed(res) # {} THEN [st |-> first_failure(res), counts |-> <<>>]
    ELSE [st |-> "return",
          counts |-> [d \in Digits |->
                        IF \E i \in 1..Len(res) : res[i].v = <<d>>
                        THEN Cardinality({i \in 1..Len(res) : res[i].v = <<d>>})
                        ELSE 1]]

\* lines 80-81: digits.dropna().astype(int).value_counts().reindex(range(1, 10),
\* fill_value=0)
value_counts_reindex(res) ==
    IF failed(res) # {} THEN [st |-> first_failure(res), counts |-> <<>>]
    ELSE [st |-> "return",
          counts |-> [d \in Digits |->
                        Cardinality({i \in 1..Len(res) : res[i].v = <<d>>})]]

\* lines 78-82
benford_distribution(series) == value_counts_reindex(apply_first_digit(dropna(series)))

\* line 75: log10(1 + 1/digit), in units of 1/Scale
benford_expected_distribution == <<3010, 1761, 1249, 969, 792, 669, 580, 512, 458>>

\* lines 85-93 with 0 in place of np.nan at line 89
benford_stats_zero(counts) ==
    LET total == SumTo(counts, 9)
        expected == benford_expected_distribution
    IN  IF total = 0 THEN [n |-> 0, mad |-> <<0>>, chi_square |-> <<0>>]
        ELSE LET actual == [d \in Digits |-> (counts[d] * Scale) \div total]
                 dev == [d \in Digits |-> Abs(actual[d] - expected[d])]
                 sq == [d \in Digits |-> (dev[d] * dev[d]) \div expected[d]]
             IN  [n |-> total, mad |-> <<SumTo(dev, 9) \div 9>>,
                  chi_square |-> <<SumTo(sq, 9) * total>>]

\* lines 85-93
benford_stats(counts) ==
    LET total == SumTo(counts, 9)
        expected == benford_expected_distribution
    IN  IF total = 0 THEN [n |-> 0, mad |-> nan, chi_square |-> nan]
        ELSE LET actual == [d \in Digits |-> (counts[d] * Scale) \div total]
                 dev == [d \in Digits |-> Abs(actual[d] - expected[d])]
                 sq == [d \in Digits |-> (dev[d] * dev[d]) \div expected[d]]
             IN  [n |-> total, mad |-> <<SumTo(dev, 9) \div 9>>,
                  chi_square |-> <<SumTo(sq, 9) * total>>]

(***************************************************************************)
(* The column profile, lines 195-204.                                      *)
(***************************************************************************)
null_count(col) == Cardinality({i \in 1..Len(col.cells) : IsNa(col.cells[i])})

\* x / y of two integers as pandas divides a Series: 0/0 is nan (no
\* exception), then * 100 and .round(2): hundredths of a percent
percent(x, y) ==
    IF y = 0 THEN nan
    ELSE LET q == (x * 100 * 100) \div y
             r == (x * 100 * 100) % y
         IN  IF 2 * r > y \/ (2 * r = y /\ q % 2 = 1) THEN <<q + 1>> ELSE <<q>>

column_profile(d) ==
    [c \in 1..Len(d.cols) |->
        [column |-> d.cols[c].name,
         dtype |-> d.cols[c].dtype,
         non_null_count |-> d.rows - null_count(d.cols[c]),
         null_count |-> null_count(d.cols[c]),
         null_percent |-> percent(null_count(d.cols[c]), d.rows)]]

(***************************************************************************)
(* The Benford report, lines 96-183.                                       *)
(***************************************************************************)
TopColumns == 3
OverviewHeader == <<"column", "n", "mad", "chi_square">>

\* line 101: df.select_dtypes(include=["number"])
select_dtypes(d) == [rows |-> d.rows, cols |-> SelectSeq(d.cols, LAMBDA c : c.dtype = "float64")]

\* DataFrame.empty: an axis of length 0
empty(d) == d.rows = 0 \/ Len(d.cols) = 0

\* line 106: numeric_df.stack(), the non-null cells row by row
RECURSIVE stack_rows(_, _)
stack_rows(d, r) ==
    IF r = 0 THEN <<>>
    ELSE stack_rows(d, r - 1) \o dropna([c \in 1..Len(d.cols) |-> d.cols[c].cells[r]])

\* the non-null cells of the first column alone
stack_first(d) == IF Len(d.cols) = 0 THEN <<>> ELSE dropna(d.cols[1].cells)

stack(d) == stack_rows(d, d.rows)

\* the same cells column by column
RECURSIVE stack_cols(_, _)
stack_cols(d, c) ==
    IF c = 0 THEN <<>> ELSE stack_cols(d, c - 1) \o dropna(d.cols[c].cells)

\* an empty file in place of the header of line 103
empty_overview_no_header ==
    [status |-> "empty", header |-> <<>>, overview |-> <<>>, distribution |-> <<>>,
     counts |-> <<>>, combined_chart |-> FALSE, top_columns |-> <<>>,
     charts |-> {}, summary |-> FALSE]

\* lines 102-104: the header alone
empty_overview ==
    [status |-> "empty", header |-> OverviewHeader, overview |-> <<>>,
     distribution |-> <<>>, counts |-> <<>>, combined_chart |-> FALSE,
     top_columns |-> <<>>, charts |-> {}, summary |-> FALSE]

\* the call never returns (a first_digit loop that cannot end) or raises
stopped(st) ==
    [status |-> st, header |-> <<>>, overview |-> <<>>, distribution |-> <<>>,
     counts |-> <<>>, combined_chart |-> FALSE, top_columns |-> <<>>,
     charts |-> {}, summary |-> FALSE]

\* lines 120-129: one overview row per numeric column, in column order
overview_rows(nd, counts) ==
    [c \in 1..Len(nd.cols) |-> [column |-> nd.cols[c].name] @@ benford_stats(counts[c])]

\* line 130: sort_values(by="n", ascending=False) with the default kind
\* "quicksort", which is not stable: any order with n descending
Orders(k) == {p \in [1..k -> 1..k] : \A i, j \in 1..k : i # j => p[i] # p[j]}
sort_values(rows) ==
    {[i \in 1..Len(rows) |-> rows[p[i]]] : p \in
        {q \in Orders(Len(rows)) :
            \A i \in 1..(Len(rows) - 1) : rows[q[i]].n >= rows[q[i + 1]].n}}

\* line 145: overview_df.head(3)["column"]
head(rows, k) == SubSeq(rows, 1, IF Len(rows) < k THEN Len(rows) ELSE k)

Init ==
    /\ \E rows \in 0..MaxRows : \E n \in 0..MaxCols : \E shapes \in [1..n -> Shapes] :
          df = Dataset(rows, shapes)
    /\ profile = NoProfile
    /\ benford = NoBenford
    /\ fdIn = NoneVal
    /\ fdVal = MagNaN
    /\ fdPc = "idle"
    /\ fdRet = None

\* write_outputs, lines 195-204
WriteColumnProfile ==
    /\ profile.status = "none"
    /\ profile' = [status |-> "written", rows |-> column_profile(df)]
    /\ UNCHANGED <<df, benford>>
    /\ UNCHANGED fdVars

\* lines 120-183, once the pooled and the per-column counts are there
report(numeric_df, combined, per) ==
    IF combined.st # "return" THEN {stopped(combined.st)}
    ELSE {[status |-> "done",
           header |-> OverviewHeader,
           overview |-> overview_df,
           distribution |-> combined.counts,
           counts |-> [c \in 1..Len(per) |-> per[c].counts],
           combined_chart |-> TRUE,
           top_columns |-> [i \in 1..Len(head(overview_df, TopColumns)) |->
                               overview_df[i].column],
           charts |-> {overview_df[i].column : i \in
                         {j \in 1..Len(head(overview_df, TopColumns)) :
                             overview_df[j].n # 0}},
           summary |-> TRUE] :
          overview_df \in sort_values(overview_rows(numeric_df,
                                         [c \in 1..Len(per) |-> per[c].counts]))}

\* lines 101-119
analyse(numeric_df) ==
    IF empty(numeric_df) THEN {empty_overview}
    ELSE report(numeric_df,
                benford_distribution(stack(numeric_df)),
                [c \in 1..Len(numeric_df.cols) |->
                    benford_distribution(numeric_df.cols[c].cells)])

\* write_benford_outputs, lines 96-183, called at line 235 once the column
\* profile is written
WriteBenfordOutputs ==
    /\ profile.status = "written"
    /\ benford.status = "none"
    /\ benford' \in analyse(select_dtypes(df))
    /\ UNCHANGED <<df, profile>>
    /\ UNCHANGED fdVars

Next == WriteColumnProfile \/ WriteBenfordOutputs

Spec == Init /\ [][Next]_vars

(***************************************************************************)
(* Properties of the digit extractor.                                      *)
(***************************************************************************)
\* first significant decimal digit of the integer with bits b
RECURSIVE LeadDigit(_)
LeadDigit(b) == IF Len(b) <= 4 /\ BitsVal(b, Len(b)) < 10 THEN BitsVal(b, Len(b))
                ELSE LeadDigit(DivTen(b).q)

\* b * 10^i for the least i that makes it at least 2^k
RECURSIVE GrowTo(_, _)
GrowTo(b, k) == IF Len(b) > k THEN b ELSE GrowTo(MulTen(b), k)

\* first significant decimal digit of the exact value int(m) * 2^e
TrueDigit(v) ==
    IF v.e >= 0 THEN LeadDigit(v.m \o Zeros(v.e))
    ELSE LET b == GrowTo(v.m, 0 - v.e)
         IN  LeadDigit(SubSeq(b, 1, Len(b) + v.e))

digit_table == [v \in FdInputs |-> first_digit(v)]

Finite(v) == v.k = "dec"

\* C1: for a finite non-zero x, first_digit(x) is a digit 1..9, it is the
\* first significant decimal digit of |x| (of the binary64 value, or of the
\* decimal literal that denotes it), and it is the same for -x and for
\* every x * 10^k.
C1_FirstSignificantDigit ==
    (fdPc = "returned" /\ Finite(fdIn)) =>
        /\ fdRet # None
        /\ fdRet[1] \in Digits
        /\ fdRet[1] \in {TrueDigit(Magnitude(fdIn)), fdIn.n}
        /\ fdRet = digit_table[Dec(~fdIn.neg, fdIn.n, fdIn.j)].v
        /\ \A j \in (0 - MaxDec)..MaxDec : fdRet = digit_table[Dec(fdIn.neg, fdIn.n, j)].v

\* C2: NaN and the infinities are returned as undefined and never enter the
\* normalisation loops (from which an infinity cannot come out).
C2_PathologicalUndefined ==
    (fdIn.k \in {"nan", "inf"}) =>
        /\ fdPc \notin {"up", "down", "int", "raised"}
        /\ (fdPc = "returned" => fdRet = None)

\* C3: a null, a zero and a text that is no number give undefined, as a
\* returned value and never as a raised error.
C3_UndefinedNotRaised ==
    (fdIn.k \in {"none", "nan", "zero"} \/ (fdIn.k = "str" /\ ~Parses(fdIn.s))) =>
        /\ fdPc # "raised"
        /\ (fdPc = "returned" => fdRet = None)

(***************************************************************************)
(* Properties of the distribution builder, the fit statistics, the column  *)
(* profile and the Benford report.                                         *)
(***************************************************************************)
numeric_cols == select_dtypes(df).cols

\* a non-null, non-zero, numeric sample
Valid(v) == ~IsNa(v) /\ v.k \in {"dec", "inf"}
ValidCount(series) == Cardinality({i \in 1..Len(series) : Valid(series[i])})

RECURSIVE ColumnSum(_, _, _)
ColumnSum(counts, c, d) == IF c = 0 THEN 0 ELSE ColumnSum(counts, c - 1, d) + counts[c][d]

RECURSIVE RowSum(_, _)
RowSum(rows, i) == IF i = 0 THEN 0 ELSE RowSum(rows, i - 1) + rows[i].n

DenseCount(counts, series) ==
    /\ DOMAIN counts = Digits
    /\ \A d \in Digits : counts[d] \in Nat
    /\ SumTo(counts, 9) = ValidCount(series)

\* C4: every DigitCount the distribution builder returns has the nine keys
\* 1..9, non-negative counts, and the counts sum to the number of non-null,
\* non-zero numeric samples of its input.
C4_DigitCountDense ==
    benford.status = "done" =>
        /\ \A c \in 1..Len(numeric_cols) : DenseCount(benford.counts[c], numeric_cols[c].cells)
        /\ DenseCount(benford.distribution, stack(select_dtypes(df)))

C4_Witness ==
    /\ benford.status = "done"
    /\ \E c \in 1..Len(numeric_cols) :
          /\ benford.counts[c][2] > 0
          /\ benford.counts[c][9] = 0
          /\ \E i \in 1..df.rows : numeric_cols[c].cells[i] = Zero
    /\ \E c \in 1..Len(numeric_cols) :
          /\ benford.counts[c][1] > 0
          /\ \E i \in 1..df.rows : numeric_cols[c].cells[i] = NaN

\* the numeric column an overview row is about
ColumnOf(row) == CHOOSE c \in 1..Len(numeric_cols) : numeric_cols[c].name = row.column

\* C5: the fit of counts that sum to 0 is n = 0 with MAD and chi-square not
\* a number; the fit of counts with a positive sum has n equal to the sum
\* and MAD and chi-square defined.
C5_FitOfEmptyUndefined ==
    benford.status = "done" =>
        \A i \in 1..Len(benford.overview) :
            LET row == benford.overview[i]
                total == SumTo(benford.counts[ColumnOf(row)], 9)
            IN  /\ row.n = total
                /\ total = 0 => (row.mad = nan /\ row.chi_square = nan)
                /\ total > 0 => (row.mad # nan /\ row.chi_square # nan)

C5_Witness ==
    /\ benford.status = "done"
    /\ \E i \in 1..Len(benford.overview) : benford.overview[i].n = 0
    /\ \E i \in 1..Len(benford.overview) : benford.overview[i].n > 1

\* C6: with zero rows null_percent is 0 for every column; with rows it is
\* round(null_count / row_count * 100, 2), between 0 and 100.
C6_NullPercentGuarded ==
    profile.status = "written" =>
        \A c \in 1..Len(profile.rows) :
            LET row == profile.rows[c]
            IN  /\ df.rows = 0 => row.null_percent = <<0>>
                /\ df.rows > 0 =>
                      /\ row.null_percent = percent(row.null_count, df.rows)
                      /\ row.null_percent # nan
                      /\ row.null_percent[1] \in 0..(100 * 100)

\* the overview lists each numeric column once
ListsNumericColumns ==
    /\ Len(benford.overview) = Len(numeric_cols)
    /\ \A c \in 1..Len(numeric_cols) :
          Cardinality({i \in 1..Len(benford.overview) :
                          benford.overview[i].column = numeric_cols[c].name}) = 1

NoInfinity ==
    \A c \in 1..Len(df.cols) : \A i \in 1..df.rows : df.cols[c].cells[i].k # "inf"

\* C8: every numeric column is in the overview exactly once; one without a
\* valid sample (all null or zero, or no rows) has n = 0 and MAD and
\* chi-square not a number and comes after every column with n > 0; the
\* run completes without an error.  (Stated for datasets without an
\* infinity, on which first_digit does not return.)
C8_EveryNumericColumnListed ==
    (benford.status # "none" /\ NoInfinity) =>
        /\ benford.status \in {"done", "empty"}
        /\ ListsNumericColumns
        /\ \A i \in 1..Len(benford.overview) :
              LET row == benford.overview[i]
              IN  ValidCount(numeric_cols[ColumnOf(row)].cells) = 0 =>
                     /\ row.n = 0
                     /\ row.mad = nan
                     /\ row.chi_square = nan
                     /\ \A j \in 1..Len(benford.overview) :
                           benford.overview[j].n > 0 => j < i

\* C9: without a numeric column the Benford analysis returns, leaving the
\* overview with its header and no row, and no chart.
C9_NoNumericColumns ==
    (benford.status # "none" /\ Len(numeric_cols) = 0) =>
        /\ benford.status = "empty"
        /\ benford.header = <<"column", "n", "mad", "chi_square">>
        /\ benford.overview = <<>>
        /\ ~benford.combined_chart
        /\ benford.charts = {}

C9_Witness ==
    /\ benford.status # "none"
    /\ Len(numeric_cols) = 0
    /\ Len(df.cols) > 1
    /\ df.rows > 0

\* C10: the pooled counts are those of all numeric cells in any order of
\* concatenation: each pooled count is the sum of the columns' counts of
\* that digit, and the pooled total is the sum of the columns' n.
C10_PooledIsSumOfColumns ==
    benford.status = "done" =>
        /\ benford.distribution =
              benford_distribution(stack_cols(select_dtypes(df), Len(numeric_cols))).counts
        /\ \A d \in Digits :
              benford.distribution[d] = ColumnSum(benford.counts, Len(numeric_cols), d)
        /\ SumTo(benford.distribution, 9) = RowSum(benford.overview, Len(benford.overview))

C10_Witness ==
    /\ benford.status = "done"
    /\ \E c1, c2 \in 1..Len(numeric_cols) :
          /\ c1 # c2
          /\ benford.counts[c1][2] > 0
          /\ benford.counts[c2][9] > 0
          /\ benford.distribution[2] > benford.counts[c1][2]

====
